---- MODULE Spec2Model ----
(***************************************************************************)
(* Model of the schedule search of courseflow-backend:                     *)
(*   scheduler/schedule_generator.py  (ScheduleGenerator, the DFS worker   *)
(*                                     thread and the top-K heap)          *)
(*   scheduler/schedule_scoring.py    (ScheduleScorer)                     *)
(*                                                                         *)
(* Times of day are minutes since midnight (datetime.time values with zero *)
(* seconds compare as their minute counts).  A `days` string is the        *)
(* sequence of its characters: the code applies set(...) and `for day in`  *)
(* to the string itself.  Floats are fixed-point integers: a score s       *)
(* stands for s / (ExpScale * 100).                                        *)
(***************************************************************************)
EXTENDS Integers, Sequences, FiniteSets, TLC

\* ------------------------------------------------------------------ bounds
\* Largest number of sections (CRNs) in a catalog.
MaxSections == 3
\* Largest max_schedules (K) a generator is built with.
MaxK == 2

\* ------------------------------------------------------------- small helpers
Front(s) == SubSeq(s, 1, Len(s) - 1)
Last(s) == s[Len(s)]
Range(s) == {s[i] : i \in 1..Len(s)}
Max2(a, b) == IF a >= b THEN a ELSE b
Min2(a, b) == IF a <= b THEN a ELSE b
Abs(a) == IF a >= 0 THEN a ELSE -a

RECURSIVE SumSeq(_)
SumSeq(s) == IF s = <<>> THEN 0 ELSE s[1] + SumSeq(Tail(s))

RECURSIVE FlattenSeq(_)
FlattenSeq(ss) == IF ss = <<>> THEN <<>> ELSE ss[1] \o FlattenSeq(Tail(ss))

\* ------------------------------------------------------------------- inputs
\* Course codes of the catalog.
Courses == {"A", "B"}

\* The meeting rows a section can have (days, begin_time, end_time), as the
\* scraper stores them: one row per day, sentinel rows at 00:00-00:00.
M0900 == [days |-> <<"M">>, begin_time |-> 540, end_time |-> 590]
M0930 == [days |-> <<"M">>, begin_time |-> 570, end_time |-> 620]
W1200 == [days |-> <<"W">>, begin_time |-> 720, end_time |-> 770]
W1300 == [days |-> <<"W">>, begin_time |-> 780, end_time |-> 830]
R1130 == [days |-> <<"R">>, begin_time |-> 690, end_time |-> 740]
ONLINE == [days |-> <<"O", "N", "L", "I", "N", "E">>, begin_time |-> 0, end_time |-> 0]

TimeChoices ==
    { <<M0900, R1130>>,     \* Monday 9:00; Thursday 11:30-12:20
      <<M0930, W1300>>,     \* overlaps M0900; Wednesday begins at 13:00
      <<M0900, M0930>>,     \* two meetings of one section that overlap
      <<W1200, ONLINE>> }   \* begins at 12:00; plus a sentinel row

BreakChoices == { <<>>, <<[begin_time |-> 720, end_time |-> 780]>> }

PreferenceChoices ==
    { [preferred_time |-> "morning", time_weight |-> 50,
       preferred_days |-> {"M", "W", "F"}, day_weight |-> 50] }

\* ------------------------------------------------------- fixed-point floats
\* One unit of a component score is 1/ExpScale; weights are hundredths, so a
\* combined score is in units of 1/(ExpScale * 100).
ExpScale == 10 ^ 5
ScoreOne == ExpScale * 100

\* ScheduleScorer.__init__: the scoring constants.
\* TIME_DECAY_FACTOR = 0.5 is the fraction 1 / TimeDecayDivisor.
TimeDecayDivisor == 2
MAX_MINUTES_DIFF == 240
\* MIN_SCORE = 0.0001
MIN_SCORE == ExpScale \div 10000

\* math.exp(-x) for x = num / den >= 0, by its alternating power series
\* term(k+1) = term(k) * x / (k+1), scaled by ExpScale.
RECURSIVE ExpSeries(_, _, _, _)
ExpSeries(k, term, num, den) ==
    IF term = 0 THEN 0
    ELSE term - ExpSeries(k + 1, (term * num) \div (den * (k + 1)), num, den)

ExpNeg(num, den) == Max2(0, ExpSeries(0, ExpScale, num, den))

\* math.sqrt on naturals: the integer square root, by Newton's iteration.
RECURSIVE IsqrtIter(_, _)
IsqrtIter(n, x) ==
    LET y == (x + n \div x) \div 2
    IN IF y >= x THEN x ELSE IsqrtIter(n, y)

Isqrt(n) == IF n = 0 THEN 0 ELSE IsqrtIter(n, n)

\* ------------------------------------------------------------ ScheduleScorer
\* self.time_ranges.get(preferred_time): (start, end) in minutes, <<>> for None.
time_ranges(preferred_time) ==
    CASE preferred_time = "morning" -> <<480, 720>>
      [] preferred_time = "afternoon" -> <<720, 960>>
      [] preferred_time = "evening" -> <<960, 1200>>
      [] OTHER -> <<>>

\* The per-meeting contribution appended to `scores` in _calculate_time_score.
TimeContribution(section, preferred_mid) ==
    IF section.begin_time = 0
    THEN ExpScale \div 2
    ELSE LET time_diff == Abs(section.begin_time - preferred_mid)
         IN Max2(ExpNeg(time_diff, TimeDecayDivisor * MAX_MINUTES_DIFF), MIN_SCORE)

_calculate_time_score(schedule, prefs) ==
    IF schedule = <<>> THEN 0
    ELSE LET preferred_range == time_ranges(prefs.preferred_time)
         IN IF preferred_range = <<>> THEN 0
            ELSE LET preferred_mid ==
                         preferred_range[1]
                             + (preferred_range[2] - preferred_range[1]) \div 2
                     scores == [i \in 1..Len(schedule) |->
                                   TimeContribution(schedule[i], preferred_mid)]
                 IN SumSeq(scores) \div Len(scores)

\* day_counts[day] after the Counter loop: occurrences of the character `day`
\* in the days strings of the schedule's meetings.
DayCount(schedule, day) ==
    SumSeq([i \in 1..Len(schedule) |->
               Cardinality({j \in 1..Len(schedule[i].days) : schedule[i].days[j] = day})])

\* The keys of day_counts.
DayKeys(schedule) == UNION {Range(schedule[i].days) : i \in 1..Len(schedule)}

\* day_counts: the Counter, as a function on its keys.
DayCounts(schedule) == [day \in DayKeys(schedule) |-> DayCount(schedule, day)]

Weekdays == {"M", "T", "W", "R", "F"}

\* sum(f[x] for x in S)
RECURSIVE SumOver(_, _)
SumOver(S, f) ==
    IF S = {} THEN 0
    ELSE LET x == CHOOSE y \in S : TRUE IN f[x] + SumOver(S \ {x}, f)

\* 1 / (1 + std_dev / mean) = total / (total + sqrt(5 * sum(c^2) - total^2)).
_calculate_distribution_score(schedule) ==
    IF DayKeys(schedule) = {} THEN 0
    ELSE LET Cnt == [d \in Weekdays |-> DayCount(schedule, d)]
             Sq == [d \in Weekdays |-> Cnt[d] * Cnt[d]]
             total == SumOver(Weekdays, Cnt)
             spread == 5 * SumOver(Weekdays, Sq) - total * total
         IN IF total = 0 THEN 0
            ELSE (ExpScale * total * 1000)
                     \div (total * 1000 + Isqrt(spread * 1000 * 1000))

_calculate_preference_match_score(schedule, prefs) ==
    LET Cnt == [d \in DayKeys(schedule) |-> DayCount(schedule, d)]
        total_classes == SumOver(DayKeys(schedule), Cnt)
        preferred_day_classes ==
            SumOver(DayKeys(schedule) \cap prefs.preferred_days, Cnt)
    IN IF total_classes = 0 THEN 0
       ELSE LET non_preferred_day_classes == total_classes - preferred_day_classes
                penalty == (non_preferred_day_classes * ExpScale) \div total_classes
            IN Max2(ExpScale - penalty, MIN_SCORE)

_calculate_day_score(schedule, prefs) ==
    IF schedule = <<>> THEN 0
    ELSE IF prefs.preferred_days = Weekdays
         THEN _calculate_distribution_score(schedule)
         ELSE _calculate_preference_match_score(schedule, prefs)

\* A weight that is not a number (None, a string) is a record field
\* time_weight_type beside the four fields; time_score * time_weight then
\* raises TypeError inside the try block of score_schedule.
ScoringRaises(schedule, prefs) == "time_weight_type" \in DOMAIN prefs

\* Mutant: the weighted sum is returned without the clamp to [0, 1].
ScoreScheduleUnclamped(schedule, prefs) ==
    IF schedule = <<>> THEN 0
    ELSE IF ScoringRaises(schedule, prefs) THEN 0
    ELSE _calculate_time_score(schedule, prefs) * prefs.time_weight
             + _calculate_day_score(schedule, prefs) * prefs.day_weight

\* score_schedule(tuple(flat_schedule)); the lru_cache returns what the body
\* would compute.  The result is in units of 1 / ScoreOne.  An exception
\* inside the try block is caught and 0.0 returned.
score_schedule(schedule, prefs) ==
    IF schedule = <<>> THEN 0
    ELSE IF ScoringRaises(schedule, prefs) THEN 0
    ELSE LET time_score == _calculate_time_score(schedule, prefs)
             day_score == _calculate_day_score(schedule, prefs)
             total_score == time_score * prefs.time_weight
                                + day_score * prefs.day_weight
         IN Max2(Min2(total_score, ScoreOne), 0)

\* --------------------------------------------------------------------- state
VARIABLES
    section_dict,       \* ScheduleGenerator.section_dict: CRN -> course; the CRNs
                        \* are 1..n in the dict's iteration order
    section_time_dict,  \* CRN -> list of SectionTime rows
    course_sections,    \* self.course_sections: course -> the CRNs of the course
                        \* (the times of a CRN are section_time_dict[crn])
    sorted_courses,     \* self.sorted_courses
    breaks,             \* list of {begin_time, end_time}
    preferences,        \* the scorer's TimePreference
    max_schedules,      \* K
    schedule_count,     \* self.schedule_count
    seen_scores,        \* self.seen_scores
    heap,               \* the list `heap` of generate_schedules, shared with the thread
    stack,              \* the worker thread's active _dfs calls, innermost last
    thread,             \* "new", "running", "finished" or "crashed"
    pc,                 \* where generate_schedules is
    result,             \* what generate_schedules returned
    considered,         \* history: the complete schedules that reached the base case
    process,            \* the frame of main.process_schedules: its position and locals
    probe,              \* one call of a pure function: its arguments and its value
    earlier_calls       \* generate_schedules calls on this generator before the
                        \* current one

vars == <<section_dict, section_time_dict, course_sections, sorted_courses, breaks, preferences, max_schedules,
          schedule_count, seen_scores, heap, stack, thread, pc, result, considered,
          process, probe, earlier_calls>>

\* The variables no step of a generator's first search touches.
others == <<process, probe, earlier_calls>>

inputs == <<section_dict, section_time_dict, course_sections, sorted_courses,
            breaks, preferences, max_schedules>>

\* -------------------------------------------------- ScheduleGenerator.__init__
\* The list course_sections[course] after the grouping loop: the CRNs of the
\* course in dict order.
SectionsOf(sd, course) ==
    SelectSeq([crn \in 1..Len(sd) |-> crn], LAMBDA crn : sd[crn] = course)

GroupSections(sd) == [course \in Range(sd) |-> SectionsOf(sd, course)]

\* self.course_sections.keys(): the courses in order of first appearance.
RECURSIVE CourseKeysOf(_)
CourseKeysOf(sd) ==
    IF sd = <<>> THEN <<>>
    ELSE LET before == CourseKeysOf(Front(sd))
         IN IF Last(sd) \in Range(before) THEN before ELSE Append(before, Last(sd))

\* sorted(keys, key=len(course_sections[c])): stable, ascending.
RECURSIVE SortByCount(_, _)
SortByCount(keys, groups) ==
    IF keys = <<>> THEN <<>>
    ELSE LET rest == SortByCount(Front(keys), groups)
             c == Last(keys)
             k == Cardinality({i \in 1..Len(rest) :
                      Len(groups[rest[i]]) <= Len(groups[c])})
         IN SubSeq(rest, 1, k) \o <<c>> \o SubSeq(rest, k + 1, Len(rest))

SortedCourses(sd) == SortByCount(CourseKeysOf(sd), GroupSections(sd))

\* --------------------------------------------------------- conflict checking
\* Mutant: the last comparison is against time2.begin_time.
CheckConflictBeginOnly(time1, time2) ==
    /\ Range(time1.days) \cap Range(time2.days) # {}
    /\ time1.end_time > time2.begin_time
    /\ time1.begin_time < time2.begin_time

\* Mutant: the two time comparisons admit equality.
CheckConflictInclusive(time1, time2) ==
    /\ Range(time1.days) \cap Range(time2.days) # {}
    /\ time1.end_time >= time2.begin_time
    /\ time1.begin_time <= time2.end_time

_check_conflict(time1, time2) ==
    /\ Range(time1.days) \cap Range(time2.days) # {}
    /\ time1.end_time > time2.begin_time
    /\ time1.begin_time < time2.end_time

\* Mutant: the break's first minute is not part of the break.
StartsInBreakExclusive(new_time, break_time) ==
    /\ new_time.begin_time > break_time.begin_time
    /\ new_time.begin_time <= break_time.end_time

\* The break test inside _is_valid_addition.
StartsInBreak(new_time, break_time) ==
    /\ new_time.begin_time >= break_time.begin_time
    /\ new_time.begin_time <= break_time.end_time

\* Mutant: `return True` one level too deep, so only the first new time is tested.
IsValidAdditionFirstOnly(current_schedule, new_times) ==
    \A i \in 1..Min2(1, Len(new_times)) :
        /\ \A j \in 1..Len(current_schedule) :
               ~_check_conflict(new_times[i], current_schedule[j])
        /\ \A b \in 1..Len(breaks) : ~StartsInBreak(new_times[i], breaks[b])

_is_valid_addition(current_schedule, new_times) ==
    \A i \in 1..Len(new_times) :
        /\ \A j \in 1..Len(current_schedule) :
               ~_check_conflict(new_times[i], current_schedule[j])
        /\ \A b \in 1..Len(breaks) : ~StartsInBreak(new_times[i], breaks[b])

\* ------------------------------------------------------------------- heapq
\* ScheduleHeapElement.__lt__
HeapLt(a, b) == a.score < b.score

\* heapq._siftdown(heap, startpos, pos) with newitem = heap[pos]; positions
\* are 0-based as in heapq, the sequence is 1-based.
RECURSIVE Siftdown(_, _, _, _)
Siftdown(h, startpos, pos, newitem) ==
    IF pos > startpos
    THEN LET parentpos == (pos - 1) \div 2
             parent == h[parentpos + 1]
         IN IF HeapLt(newitem, parent)
            THEN Siftdown([h EXCEPT ![pos + 1] = parent], startpos, parentpos, newitem)
            ELSE [h EXCEPT ![pos + 1] = newitem]
    ELSE [h EXCEPT ![pos + 1] = newitem]

\* heapq._siftup(heap, pos)
RECURSIVE Siftup(_, _, _, _)
Siftup(h, startpos, pos, newitem) ==
    LET endpos == Len(h)
        childpos == 2 * pos + 1
        rightpos == childpos + 1
    IN IF childpos < endpos
       THEN LET c == IF rightpos < endpos /\ ~HeapLt(h[childpos + 1], h[rightpos + 1])
                     THEN rightpos ELSE childpos
            IN Siftup([h EXCEPT ![pos + 1] = h[c + 1]], startpos, c, newitem)
       ELSE Siftdown([h EXCEPT ![pos + 1] = newitem], startpos, pos, newitem)

heappush(h, item) == Siftdown(Append(h, item), 0, Len(h), item)

heapreplace(h, item) == Siftup([h EXCEPT ![1] = item], 0, 0, item)

\* Mutant: reverse=True is missing.
RECURSIVE SortAscending(_)
SortAscending(r) ==
    IF r = <<>> THEN <<>>
    ELSE LET rest == SortAscending(Front(r))
             x == Last(r)
             k == Cardinality({i \in 1..Len(rest) : rest[i].score <= x.score})
         IN SubSeq(rest, 1, k) \o <<x>> \o SubSeq(rest, k + 1, Len(rest))

\* sorted(result, key=lambda x: x[0], reverse=True): stable, descending.
RECURSIVE SortDescending(_)
SortDescending(r) ==
    IF r = <<>> THEN <<>>
    ELSE LET rest == SortDescending(Front(r))
             x == Last(r)
             k == Cardinality({i \in 1..Len(rest) : rest[i].score >= x.score})
         IN SubSeq(rest, 1, k) \o <<x>> \o SubSeq(rest, k + 1, Len(rest))

\* ---------------------------------------------------------------------- Init
NoResult == [kind |-> "none", schedules |-> <<>>, count |-> 0]

\* process_schedules has not been called; no pure function is being probed.
NoProcess == [pc |-> "none"]
NoProbe == [op |-> "none"]

\* The state after ScheduleGenerator(section_dict, section_time_dict, breaks,
\* preferences, max_schedules).
Init ==
    /\ \E n \in 0..MaxSections :
         \E sd \in [1..n -> Courses], tc \in [1..n -> TimeChoices] :
            \* course codes are opaque: the first section's course is called "A"
            /\ n > 0 => sd[1] = "A"
            /\ section_dict = sd
            /\ course_sections = GroupSections(sd)
            /\ sorted_courses = SortedCourses(sd)
            /\ section_time_dict =
                   [crn \in 1..n |->
                       [i \in 1..Len(tc[crn]) |->
                           [crn |-> crn, days |-> tc[crn][i].days,
                            begin_time |-> tc[crn][i].begin_time,
                            end_time |-> tc[crn][i].end_time]]]
    /\ breaks \in BreakChoices
    /\ preferences \in PreferenceChoices
    /\ max_schedules \in 1..MaxK
    /\ schedule_count = 0
    /\ seen_scores = {}
    /\ heap = <<>>
    /\ stack = <<>>
    /\ thread = "new"
    /\ pc = "constructed"
    /\ result = NoResult
    /\ considered = <<>>
    /\ earlier_calls = 0
    /\ process = NoProcess
    /\ probe = NoProbe

\* ------------------------------------------------------- generate_schedules
\* heap = []; seen_scores.clear(); Thread(target=_dfs, args=(0, {}, [], heap)).start()
StartSearch ==
    /\ pc = "constructed"
    /\ heap' = <<>>
    /\ seen_scores' = {}
    /\ stack' = <<[course_index |-> 0, current_schedule |-> <<>>,
                   flat_schedule |-> <<>>, next |-> 1]>>
    /\ thread' = "running"
    /\ pc' = "joining"
    /\ UNCHANGED <<inputs, others, schedule_count, result, considered>>

\* thread.join(timeout=90) returns because the thread has ended.
JoinThreadEnded ==
    /\ pc = "joining"
    /\ thread # "running"
    /\ pc' = "joined"
    /\ UNCHANGED <<inputs, others, schedule_count, seen_scores, heap, stack, thread,
                   result, considered>>

\* thread.join(timeout=90) returns because the 90 seconds have passed.
JoinTimeout ==
    /\ pc = "joining"
    /\ thread = "running"
    /\ pc' = "joined"
    /\ UNCHANGED <<inputs, others, schedule_count, seen_scores, heap, stack, thread,
                   result, considered>>

\* Mutant: the timeout outcome carries the schedules collected so far.
ReturnPartialOnTimeout ==
    /\ pc = "joined"
    /\ thread = "running"
    /\ result' = [kind |-> "timeout",
                  schedules |-> [i \in 1..Len(heap) |->
                      [score |-> -heap[i].score, schedule |-> heap[i].schedule]],
                  count |-> schedule_count]
    /\ pc' = "returned"
    /\ UNCHANGED <<inputs, others, schedule_count, seen_scores, heap, stack, thread, considered>>

\* if thread.is_alive(): return ["timeout"]
ReturnTimeout ==
    /\ pc = "joined"
    /\ thread = "running"
    /\ result' = [kind |-> "timeout", schedules |-> <<>>, count |-> 0]
    /\ pc' = "returned"
    /\ UNCHANGED <<inputs, others, schedule_count, seen_scores, heap, stack, thread, considered>>

\* result = [(-element.score, element.schedule) for element in heap]
\* return (sorted(result, key=score, reverse=True), self.schedule_count)
RankedResult(h, count) ==
    [kind |-> "ranked",
     schedules |-> SortDescending([i \in 1..Len(h) |->
                       [score |-> -h[i].score, schedule |-> h[i].schedule]]),
     count |-> count]

\* Mutant: the ranked result is built without the is_alive() test.
ReturnRankedWhileRunning ==
    /\ pc = "joined"
    /\ result' = RankedResult(heap, schedule_count)
    /\ pc' = "returned"
    /\ UNCHANGED <<inputs, others, schedule_count, seen_scores, heap, stack, thread,
                   considered>>

ReturnRanked ==
    /\ pc = "joined"
    /\ thread # "running"
    /\ result' = RankedResult(heap, schedule_count)
    /\ pc' = "returned"
    /\ UNCHANGED <<inputs, others, schedule_count, seen_scores, heap, stack, thread, considered>>

\* --------------------------------------------------------------------- _dfs
Top == stack[Len(stack)]

\* The thread ends when the outermost _dfs call returns.
AfterReturn(st) == IF st = <<>> THEN "finished" ELSE "running"

\* Mutant: the capacity test is len(heap) <= max_schedules.
BaseCaseOverfill(h, seen, count, score, schedule) ==
    IF score \in seen
    THEN [heap |-> h, seen_scores |-> seen, schedule_count |-> count, raised |-> FALSE]
    ELSE LET element == [score |-> -score, schedule |-> schedule]
         IN IF Len(h) <= max_schedules
            THEN [heap |-> heappush(h, element), seen_scores |-> seen \cup {score},
                  schedule_count |-> count + 1, raised |-> FALSE]
            ELSE IF -score < h[1].score
            THEN [heap |-> heapreplace(h, element),
                  seen_scores |-> (seen \ {-h[1].score}) \cup {score},
                  schedule_count |-> count + 1, raised |-> FALSE]
            ELSE [heap |-> h, seen_scores |-> seen,
                  schedule_count |-> count + 1, raised |-> FALSE]

\* Mutant: no duplicate-score test.
BaseCaseNoDuplicateTest(h, seen, count, score, schedule) ==
    LET element == [score |-> -score, schedule |-> schedule]
    IN IF Len(h) < max_schedules
       THEN [heap |-> heappush(h, element), seen_scores |-> seen \cup {score},
             schedule_count |-> count + 1, raised |-> FALSE]
       ELSE IF h = <<>>
       THEN [heap |-> h, seen_scores |-> seen,
             schedule_count |-> count + 1, raised |-> TRUE]
       ELSE IF -score < h[1].score
       THEN [heap |-> heapreplace(h, element),
             seen_scores |-> (seen \ {-h[1].score}) \cup {score},
             schedule_count |-> count + 1, raised |-> FALSE]
       ELSE [heap |-> h, seen_scores |-> seen,
             schedule_count |-> count + 1, raised |-> FALSE]

\* Mutant: a pushed score is not added to seen_scores.
BaseCaseForgetsSeen(h, seen, count, score, schedule) ==
    IF score \in seen
    THEN [heap |-> h, seen_scores |-> seen, schedule_count |-> count, raised |-> FALSE]
    ELSE LET element == [score |-> -score, schedule |-> schedule]
         IN IF Len(h) < max_schedules
            THEN [heap |-> heappush(h, element), seen_scores |-> seen,
                  schedule_count |-> count + 1, raised |-> FALSE]
            ELSE IF h = <<>>
            THEN [heap |-> h, seen_scores |-> seen,
                  schedule_count |-> count + 1, raised |-> TRUE]
            ELSE IF -score < h[1].score
            THEN [heap |-> heapreplace(h, element),
                  seen_scores |-> (seen \ {-h[1].score}) \cup {score},
                  schedule_count |-> count + 1, raised |-> FALSE]
            ELSE [heap |-> h, seen_scores |-> seen,
                  schedule_count |-> count + 1, raised |-> FALSE]

\* Mutant: the evicted score stays in seen_scores.
BaseCaseKeepsEvictedScore(h, seen, count, score, schedule) ==
    IF score \in seen
    THEN [heap |-> h, seen_scores |-> seen, schedule_count |-> count, raised |-> FALSE]
    ELSE LET element == [score |-> -score, schedule |-> schedule]
         IN IF Len(h) < max_schedules
            THEN [heap |-> heappush(h, element), seen_scores |-> seen \cup {score},
                  schedule_count |-> count + 1, raised |-> FALSE]
            ELSE IF h = <<>>
            THEN [heap |-> h, seen_scores |-> seen,
                  schedule_count |-> count + 1, raised |-> TRUE]
            ELSE IF -score < h[1].score
            THEN [heap |-> heapreplace(h, element),
                  seen_scores |-> seen \cup {score},
                  schedule_count |-> count + 1, raised |-> FALSE]
            ELSE [heap |-> h, seen_scores |-> seen,
                  schedule_count |-> count + 1, raised |-> FALSE]

\* Mutant: a full heap accepts the offers below heap[0].
BaseCaseAcceptsLower(h, seen, count, score, schedule) ==
    IF score \in seen
    THEN [heap |-> h, seen_scores |-> seen, schedule_count |-> count, raised |-> FALSE]
    ELSE LET element == [score |-> -score, schedule |-> schedule]
         IN IF Len(h) < max_schedules
            THEN [heap |-> heappush(h, element), seen_scores |-> seen \cup {score},
                  schedule_count |-> count + 1, raised |-> FALSE]
            ELSE IF h = <<>>
            THEN [heap |-> h, seen_scores |-> seen,
                  schedule_count |-> count + 1, raised |-> TRUE]
            ELSE IF -score > h[1].score
            THEN [heap |-> heapreplace(h, element),
                  seen_scores |-> (seen \ {-h[1].score}) \cup {score},
                  schedule_count |-> count + 1, raised |-> FALSE]
            ELSE [heap |-> h, seen_scores |-> seen,
                  schedule_count |-> count + 1, raised |-> FALSE]

\* The base case after scoring: duplicate test, count, heap update.  `raised`
\* is the IndexError of heap[0] on an empty heap.
BaseCase(h, seen, count, score, schedule) ==
    IF score \in seen
    THEN [heap |-> h, seen_scores |-> seen, schedule_count |-> count, raised |-> FALSE]
    ELSE LET element == [score |-> -score, schedule |-> schedule]
         IN IF Len(h) < max_schedules
            THEN [heap |-> heappush(h, element), seen_scores |-> seen \cup {score},
                  schedule_count |-> count + 1, raised |-> FALSE]
            ELSE IF h = <<>>
            THEN [heap |-> h, seen_scores |-> seen,
                  schedule_count |-> count + 1, raised |-> TRUE]
            ELSE IF -score < h[1].score
            THEN [heap |-> heapreplace(h, element),
                  seen_scores |-> (seen \ {-h[1].score}) \cup {score},
                  schedule_count |-> count + 1, raised |-> FALSE]
            ELSE [heap |-> h, seen_scores |-> seen,
                  schedule_count |-> count + 1, raised |-> FALSE]

\* Mutant: the base case is reached one course early.
IsCompleteOneEarly(course_index) == course_index >= Len(sorted_courses) - 1

\* if course_index == len(self.sorted_courses)
IsComplete(course_index) == course_index = Len(sorted_courses)

\* The base case: score, offer, return.
DfsComplete ==
    /\ thread = "running"
    /\ IsComplete(Top.course_index)
    /\ LET score == score_schedule(Top.flat_schedule, preferences)
           after == BaseCase(heap, seen_scores, schedule_count, score,
                             Top.current_schedule)
       IN /\ considered' = Append(considered,
                 [schedule |-> Top.current_schedule, score |-> score])
          /\ heap' = after.heap
          /\ seen_scores' = after.seen_scores
          /\ schedule_count' = after.schedule_count
          /\ IF after.raised
             THEN stack' = <<>> /\ thread' = "crashed"
             ELSE stack' = Front(stack) /\ thread' = AfterReturn(Front(stack))
    /\ UNCHANGED <<inputs, others, pc, result>>

\* One iteration of `for crn, times in self.course_sections[course]`.
DfsTrySection ==
    /\ thread = "running"
    /\ ~IsComplete(Top.course_index)
    /\ LET course == sorted_courses[Top.course_index + 1]
           sections == course_sections[course]
       IN /\ Top.next <= Len(sections)
          /\ LET crn == sections[Top.next]
                 times == section_time_dict[crn]
                 advanced == [stack EXCEPT ![Len(stack)].next = @ + 1]
             IN IF _is_valid_addition(Top.flat_schedule, times)
                THEN stack' = Append(advanced,
                         [course_index |-> Top.course_index + 1,
                          current_schedule |-> Append(Top.current_schedule, crn),
                          flat_schedule |-> Top.flat_schedule \o times,
                          next |-> 1])
                ELSE stack' = advanced
    /\ UNCHANGED <<inputs, others, schedule_count, seen_scores, heap, thread, pc, result,
                   considered>>

\* The for loop is exhausted: the call returns.
DfsReturn ==
    /\ thread = "running"
    /\ ~IsComplete(Top.course_index)
    /\ Top.next > Len(course_sections[sorted_courses[Top.course_index + 1]])
    /\ stack' = Front(stack)
    /\ thread' = AfterReturn(Front(stack))
    /\ UNCHANGED <<inputs, others, schedule_count, seen_scores, heap, pc, result, considered>>

Next ==
    \/ StartSearch
    \/ JoinThreadEnded
    \/ JoinTimeout
    \/ ReturnTimeout
    \/ ReturnRanked
    \/ DfsComplete
    \/ DfsTrySection
    \/ DfsReturn

Spec == Init /\ [][Next]_vars

\* ==================================================================== claims
\* The meetings of a schedule (a list of CRNs), in placement order.
ScheduleMeetings(schedule) ==
    FlattenSeq([i \in 1..Len(schedule) |-> section_time_dict[schedule[i]]])

\* The day set of a meeting: the sentinels ONLINE and ARR denote no day.
SentinelDays == {<<"O", "N", "L", "I", "N", "E">>, <<"A", "R", "R">>}
DaySet(m) == IF m.days \in SentinelDays THEN {} ELSE Range(m.days)

\* Meetings a and b conflict iff they share a day, a.end > b.begin and
\* a.begin < b.end.
InConflict(a, b) ==
    /\ DaySet(a) \cap DaySet(b) # {}
    /\ a.end_time > b.begin_time
    /\ a.begin_time < b.end_time

Ranked == result.kind = "ranked"
ReturnedSchedules == {result.schedules[k].schedule : k \in 1..Len(result.schedules)}

\* C1 as stated: in every returned schedule no two meetings conflict,
\* whichever sections they belong to (two meetings of one section included).
C1_NoConflictAnyPair ==
    Ranked =>
        \A sch \in ReturnedSchedules :
            LET ms == ScheduleMeetings(sch)
            IN \A i, j \in 1..Len(ms) : i # j => ~InConflict(ms[i], ms[j])

\* C1 amended: in every returned schedule no two meetings that belong to
\* different sections conflict.
C1_NoConflictAcrossSections ==
    Ranked =>
        \A sch \in ReturnedSchedules :
            LET ms == ScheduleMeetings(sch)
            IN \A i, j \in 1..Len(ms) :
                   ms[i].crn # ms[j].crn => ~InConflict(ms[i], ms[j])

\* A schedule of two sections was returned from a catalog in which two
\* sections of different courses conflict.
C1_Witness ==
    /\ Ranked
    /\ \E sch \in ReturnedSchedules : Len(sch) >= 2
    /\ \E c1, c2 \in 1..Len(section_dict) :
           /\ section_dict[c1] # section_dict[c2]
           /\ \E i \in 1..Len(section_time_dict[c1]), j \in 1..Len(section_time_dict[c2]) :
                  InConflict(section_time_dict[c1][i], section_time_dict[c2][j])

\* C2: for every returned schedule and every break [bb, be], no meeting of
\* the schedule begins at a time t with bb <= t <= be.
C2_NoStartInsideBreak ==
    Ranked =>
        \A sch \in ReturnedSchedules :
            LET ms == ScheduleMeetings(sch)
            IN \A i \in 1..Len(ms), b \in 1..Len(breaks) :
                   ~(breaks[b].begin_time <= ms[i].begin_time
                         /\ ms[i].begin_time <= breaks[b].end_time)

\* A returned schedule holds a meeting that begins before a break and ends
\* inside it, while the catalog also has a section beginning at the break's
\* first minute and one beginning at its last.
C2_Witness ==
    /\ Ranked
    /\ \E sch \in ReturnedSchedules :
           LET ms == ScheduleMeetings(sch)
           IN \E i \in 1..Len(ms), b \in 1..Len(breaks) :
                  /\ ms[i].begin_time < breaks[b].begin_time
                  /\ ms[i].end_time > breaks[b].begin_time
    /\ \E c1, c2 \in 1..Len(section_dict), b \in 1..Len(breaks) :
           /\ \E i \in 1..Len(section_time_dict[c1]) :
                  section_time_dict[c1][i].begin_time = breaks[b].begin_time
           /\ \E i \in 1..Len(section_time_dict[c2]) :
                  section_time_dict[c2][i].begin_time = breaks[b].end_time

\* C3: every returned schedule holds exactly one section of every course of
\* the catalog the generator was built from.
C3_OneSectionPerCourse ==
    Ranked =>
        \A sch \in ReturnedSchedules :
            \A course \in Range(section_dict) :
                Cardinality({i \in 1..Len(sch) : section_dict[sch[i]] = course}) = 1

\* A schedule was returned for two courses, one of them with two sections.
C3_Witness ==
    /\ Ranked
    /\ ReturnedSchedules # {}
    /\ Cardinality(Range(section_dict)) = 2
    /\ \E course \in Range(section_dict) : Len(course_sections[course]) >= 2

\* The entries of the heap and of the history, as (schedule, score) records.
HeapEntries ==
    {[schedule |-> heap[i].schedule, score |-> -heap[i].score] : i \in 1..Len(heap)}
HeapScores == {-heap[i].score : i \in 1..Len(heap)}

PairwiseDistinctScores(c) ==
    \A i, j \in 1..Len(c) : i # j => c[i].score # c[j].score

\* The entries of c that fewer than K entries of c outscore.
TopK(c, K) ==
    {c[i] : i \in {n \in 1..Len(c) :
        Cardinality({j \in 1..Len(c) : c[j].score > c[n].score}) < K}}

\* C4 as stated: when the schedules offered during a search have pairwise
\* distinct scores, the heap holds exactly the K highest-scoring of them
\* once the search has ended.
C4_TopKRetained ==
    (thread = "finished" /\ PairwiseDistinctScores(considered))
        => HeapEntries = TopK(considered, max_schedules)

\* C5: the heap never holds more than max_schedules entries, and a ranked
\* result has at most max_schedules entries.
C5_AtMostK ==
    /\ Len(heap) <= max_schedules
    /\ Ranked => Len(result.schedules) <= max_schedules

\* A ranked result of exactly max_schedules entries after more than
\* max_schedules counted offers.
C5_Witness ==
    /\ Ranked
    /\ Len(result.schedules) = max_schedules
    /\ result.count > max_schedules

\* C6: the ranked result is in strictly descending order of score.
C6_StrictlyDescending ==
    Ranked =>
        \A k \in 1..(Len(result.schedules) - 1) :
            result.schedules[k].score > result.schedules[k + 1].score

\* A ranked result of two or more entries of a search in which a schedule
\* was offered with the score of an earlier one.
C6_Witness ==
    /\ Ranked
    /\ Len(result.schedules) >= 2
    /\ ~PairwiseDistinctScores(considered)

\* C7: the step that offers a schedule whose score equals the score of a
\* heap entry leaves the heap and seen_scores unchanged.
C7_DuplicateOfferRejected ==
    [][(/\ thread = "running"
        /\ IsComplete(Top.course_index)
        /\ score_schedule(Top.flat_schedule, preferences) \in HeapScores
        /\ considered' # considered)
           => (heap' = heap /\ seen_scores' = seen_scores)]_vars

\* The schedule offered last has the score of a heap entry that holds
\* another schedule.
C7_Witness ==
    /\ considered # <<>>
    /\ \E e \in HeapEntries :
           /\ e.score = Last(considered).score
           /\ e.schedule # Last(considered).schedule

\* The combinations of one section per course, as sets of CRNs.
Combinations ==
    {S \in SUBSET (1..Len(section_dict)) :
        \A course \in Range(section_dict) :
            Cardinality({crn \in S : section_dict[crn] = course}) = 1}

NoStartInBreak(S) ==
    \A crn \in S : \A i \in 1..Len(section_time_dict[crn]), b \in 1..Len(breaks) :
        ~(breaks[b].begin_time <= section_time_dict[crn][i].begin_time
              /\ section_time_dict[crn][i].begin_time <= breaks[b].end_time)

\* Feasible with every pair of distinct meetings tested, those of one
\* section included.
FeasibleAnyPair(S) ==
    /\ NoStartInBreak(S)
    /\ \A c1, c2 \in S :
           \A i \in 1..Len(section_time_dict[c1]), j \in 1..Len(section_time_dict[c2]) :
               (c1 # c2 \/ i # j)
                   => ~InConflict(section_time_dict[c1][i], section_time_dict[c2][j])

\* Feasible with the pairs of meetings of different sections tested.
FeasibleAcrossSections(S) ==
    /\ NoStartInBreak(S)
    /\ \A c1, c2 \in S :
           \A i \in 1..Len(section_time_dict[c1]), j \in 1..Len(section_time_dict[c2]) :
               c1 # c2 => ~InConflict(section_time_dict[c1][i], section_time_dict[c2][j])

ConsideredOnce ==
    \A i, j \in 1..Len(considered) :
        i # j => Range(considered[i].schedule) # Range(considered[j].schedule)
ConsideredSets == {Range(considered[i].schedule) : i \in 1..Len(considered)}

\* C8 as stated: a search that ran to its end has taken to the base case,
\* once each, exactly the combinations without any pairwise meeting conflict
\* and without a meeting starting inside a break.
C8_ConsideredIsFeasibleAnyPair ==
    thread = "finished" =>
        /\ ConsideredOnce
        /\ ConsideredSets = {S \in Combinations : FeasibleAnyPair(S)}

\* C8 amended: ... exactly the combinations in which no two meetings of
\* different sections conflict and no meeting starts inside a break.
C8_ConsideredIsFeasibleAcrossSections ==
    thread = "finished" =>
        /\ ConsideredOnce
        /\ ConsideredSets = {S \in Combinations : FeasibleAcrossSections(S)}

\* A finished search over two courses that took a combination to the base
\* case and pruned another.
C8_Witness ==
    /\ thread = "finished"
    /\ Cardinality(Range(section_dict)) = 2
    /\ Len(considered) >= 1
    /\ Cardinality(Combinations) > Len(considered)

\* C9 as stated: the returned count is the number of complete schedules
\* that reached the base case, duplicates of a retained score included.
C9_CountIsAllConsidered ==
    Ranked => result.count = Len(considered)

\* C10: when the thread is still alive at the driver's is_alive() test after
\* the join, the driver returns the timeout outcome, which holds no schedule.
C10_TimeoutDiscardsBuffer ==
    [][(pc = "joined" /\ thread = "running" /\ pc' = "returned")
           => (result'.kind = "timeout" /\ result'.schedules = <<>>)]_vars

\* The driver has returned the timeout outcome while the heap of the
\* still-running worker holds schedules.
C10_Witness ==
    /\ pc = "returned"
    /\ result.kind = "timeout"
    /\ thread = "running"
    /\ heap # <<>>

\* ------------------------------------------------------- a deadline of zero
\* thread.join(timeout=0): the join does not wait.  It returns at once, whether
\* the thread has ended by then or not.
JoinNoWait ==
    /\ pc = "joining"
    /\ pc' = "joined"
    /\ UNCHANGED <<inputs, others, schedule_count, seen_scores, heap, stack, thread,
                   result, considered>>

NextDeadline0 ==
    \/ StartSearch
    \/ JoinNoWait
    \/ ReturnTimeout
    \/ ReturnRanked
    \/ DfsComplete
    \/ DfsTrySection
    \/ DfsReturn

SpecDeadline0 == Init /\ [][NextDeadline0]_vars

\* C11: with the deadline set to 0, whatever the catalog and the interleaving
\* of the driver and the worker, the search returns the timeout outcome.
C11_DeadlineZeroTimesOut == pc = "returned" => result.kind = "timeout"

\* ------------------------------------------- the worker after a timeout
\* C12: once the deadline has elapsed and the driver has returned the timeout
\* outcome, the worker has observed the cancellation and stopped: it enters no
\* further _dfs call (no node expansion) and makes no further offer.
C12_WorkerStopsAfterDeadline ==
    [][result.kind = "timeout" =>
          (Len(stack') <= Len(stack) /\ considered' = considered)]_vars

\* C13: after generate_schedules has returned, ranked or timeout, the worker
\* modifies neither the heap nor seen_scores nor schedule_count.
C13_NoWorkerWriteAfterReturn ==
    [][pc = "returned" =>
          (heap' = heap /\ seen_scores' = seen_scores
              /\ schedule_count' = schedule_count)]_vars

\* ------------------------------------------------------------ determinism
\* The combinations of one section for each of the courses after the first
\* course_index ones, courses in sorted_courses order, sections in list order.
RECURSIVE Enumerate(_)
Enumerate(course_index) ==
    IF course_index = Len(sorted_courses) THEN << <<>> >>
    ELSE LET sections == course_sections[sorted_courses[course_index + 1]]
             tails == Enumerate(course_index + 1)
         IN FlattenSeq([i \in 1..Len(sections) |->
                [j \in 1..Len(tails) |-> <<sections[i]>> \o tails[j]]])

\* The buffer after the schedules of a list have been offered in order to the
\* empty buffer of a new generator.
RECURSIVE OfferAll(_)
OfferAll(schedules) ==
    IF schedules = <<>>
    THEN [heap |-> <<>>, seen_scores |-> {}, schedule_count |-> 0, raised |-> FALSE]
    ELSE LET before == OfferAll(Front(schedules))
             schedule == Last(schedules)
         IN BaseCase(before.heap, before.seen_scores, before.schedule_count,
                     score_schedule(ScheduleMeetings(schedule), preferences),
                     schedule)

\* What the inputs alone determine: the result of offering the feasible
\* combinations in enumeration order.
ReferenceResult ==
    LET feasible == SelectSeq(Enumerate(0),
                        LAMBDA schedule : FeasibleAcrossSections(Range(schedule)))
        final == OfferAll(feasible)
    IN RankedResult(final.heap, final.schedule_count)

\* C14 as stated: every run on the same inputs returns the same outcome kind,
\* ranked list and count, namely what the run that ends in time returns.
C14_EveryRunAgrees == pc = "returned" => result = ReferenceResult

\* C14: every run that returns a ranked outcome returns the list, the order
\* and the count that the inputs determine.
C14_RankedRunsAgree == Ranked => result = ReferenceResult

C14_Witness ==
    /\ Ranked
    /\ Len(considered) >= 3
    /\ Len(result.schedules) >= 2
    /\ result = ReferenceResult

\* ------------------------------------------------- malformed preferences
\* Preferences ScheduleScorer.__init__ is given: the well-formed one and one
\* for each way of being malformed.  Weights are in hundredths.
MalformedPreferenceChoices ==
    { [preferred_time |-> "morning", time_weight |-> 150,
       preferred_days |-> {"M", "W", "F"}, day_weight |-> 50],    \* weight > 1
      [preferred_time |-> "morning", time_weight |-> 30,
       preferred_days |-> {"M", "W", "F"}, day_weight |-> 30],    \* sum # 1
      [preferred_time |-> "night", time_weight |-> 50,
       preferred_days |-> {"M", "W", "F"}, day_weight |-> 50],    \* unknown period
      [preferred_time |-> "morning", time_weight |-> 50,
       preferred_days |-> {"M", "X"}, day_weight |-> 50] }        \* unknown day

\* A generator constructed with any of these preferences over a catalog of
\* fewer than MaxSections sections.
InitAnyPreferences ==
    /\ \E n \in 0..(MaxSections - 1) :
         \E sd \in [1..n -> Courses], tc \in [1..n -> TimeChoices] :
            /\ n > 0 => sd[1] = "A"
            /\ section_dict = sd
            /\ course_sections = GroupSections(sd)
            /\ sorted_courses = SortedCourses(sd)
            /\ section_time_dict =
                   [crn \in 1..n |->
                       [i \in 1..Len(tc[crn]) |->
                           [crn |-> crn, days |-> tc[crn][i].days,
                            begin_time |-> tc[crn][i].begin_time,
                            end_time |-> tc[crn][i].end_time]]]
    /\ breaks \in BreakChoices
    /\ preferences \in PreferenceChoices \cup MalformedPreferenceChoices
    /\ max_schedules \in 1..MaxK
    /\ schedule_count = 0
    /\ seen_scores = {}
    /\ heap = <<>>
    /\ stack = <<>>
    /\ thread = "new"
    /\ pc = "constructed"
    /\ result = NoResult
    /\ considered = <<>>
    /\ earlier_calls = 0
    /\ process = NoProcess
    /\ probe = NoProbe

SpecAnyPreferences == InitAnyPreferences /\ [][Next]_vars

\* Weights in [0, 1] that sum to 1, a known period, valid preferred days.
WellFormedPreferences(prefs) ==
    /\ prefs.time_weight \in 0..100
    /\ prefs.day_weight \in 0..100
    /\ prefs.time_weight + prefs.day_weight = 100
    /\ time_ranges(prefs.preferred_time) # <<>>
    /\ prefs.preferred_days \subseteq Weekdays

\* C15: a generator whose preferences are malformed never starts a search.
C15_MalformedPreferencesRejected ==
    ~WellFormedPreferences(preferences) => (pc = "constructed" /\ thread = "new")

\* -------------------------------------------------------- process_schedules
\* Course codes a request can name: those of the catalog and one more.
RequestCourses == Courses \cup {"C"}

\* The `courses` argument: a list of one or two course codes.
RequestChoices ==
    {<<c>> : c \in RequestCourses} \cup {<<c, d>> : c, d \in RequestCourses}

\* SectionFetcher(courses).fetch_sections() over the Section table `db`
\* (course[crn], times[crn]): the tuple it returns.
fetch_sections(courses, db) ==
    LET sections == {crn \in 1..Len(db.course) : db.course[crn] \in Range(courses)}
        courses_with_sections == {db.course[crn] : crn \in sections}
        fetched_section_dict == [crn \in sections |-> db.course[crn]]
        fetched_section_time_dict == [crn \in sections |-> db.times[crn]]
        missing_sections ==
            SelectSeq(courses, LAMBDA course : course \notin courses_with_sections)
    IN <<fetched_section_dict, fetched_section_time_dict, missing_sections>>

\* process_schedules(courses, breaks, preferences, max_schedules) has been
\* called by GenerateScheduleView.post; no generator exists yet.
InitProcess ==
    /\ \E n \in 0..MaxSections :
         \E sd \in [1..n -> Courses], tc \in [1..n -> TimeChoices],
            courses \in RequestChoices :
            process = [pc |-> "called", courses |-> courses,
                       db |-> [course |-> sd, times |-> tc],
                       fetched |-> <<>>, error |-> "none", returned |-> <<>>]
    /\ section_dict = <<>>
    /\ section_time_dict = <<>>
    /\ course_sections = <<>>
    /\ sorted_courses = <<>>
    /\ breaks = <<>>
    /\ preferences \in PreferenceChoices
    /\ max_schedules = 10
    /\ schedule_count = 0
    /\ seen_scores = {}
    /\ heap = <<>>
    /\ stack = <<>>
    /\ thread = "new"
    /\ pc = "unconstructed"
    /\ result = NoResult
    /\ considered = <<>>
    /\ earlier_calls = 0
    /\ probe = NoProbe

\* section_fetcher = SectionFetcher(courses); the call fetch_sections().
FetchSections ==
    /\ process.pc = "called"
    /\ process' = [process EXCEPT !.pc = "fetched",
                                  !.fetched = fetch_sections(process.courses, process.db)]
    /\ UNCHANGED <<inputs, schedule_count, seen_scores, heap, stack, thread, pc,
                   result, considered, probe, earlier_calls>>

\* section_dict, section_time_dict = <the tuple>: two targets.  A tuple of any
\* other length raises ValueError, which process_schedules does not catch.
UnpackFetched ==
    /\ process.pc = "fetched"
    /\ process' = IF Len(process.fetched) = 2
                  THEN [process EXCEPT !.pc = "unpacked"]
                  ELSE [process EXCEPT !.pc = "raised", !.error = "ValueError"]
    /\ UNCHANGED <<inputs, schedule_count, seen_scores, heap, stack, thread, pc,
                   result, considered, probe, earlier_calls>>

NextProcess ==
    \/ FetchSections
    \/ UnpackFetched

SpecProcess == InitProcess /\ [][NextProcess]_vars

\* process_schedules has ended, by a return or by an exception.
ProcessEnded == process.pc \in {"returned", "raised"}

\* The requested courses that have a section in the catalog.
CoursesFound == Range(process.courses) \cap Range(process.db.course)

\* C16: when no requested course has a section, process_schedules returns an
\* empty list, not an error, and the missing courses it gives back are all
\* the requested courses.
C16_AllMissingGivesEmptyList ==
    (ProcessEnded /\ CoursesFound = {}) =>
        /\ process.pc = "returned"
        /\ process.returned = [schedules |-> <<>>, missing |-> process.courses]

\* The requested courses without a section in the catalog.
CoursesMissing == Range(process.courses) \ Range(process.db.course)

\* C17: when some but not all requested courses have no section,
\* process_schedules returns, and returns the missing courses alongside the
\* ranked outcome of the search over the other courses.
C17_MissingReturnedWithOutcome ==
    (ProcessEnded /\ CoursesFound # {} /\ CoursesMissing # {}) =>
        /\ process.pc = "returned"
        /\ Range(process.returned.missing) = CoursesMissing

\* C18: for a request whose lookup finds at least one section,
\* process_schedules ends without raising and returns a list of at most
\* max_schedules formatted schedules.
C18_CompletesWithoutRaising ==
    (ProcessEnded /\ process.fetched # <<>> /\ DOMAIN process.fetched[1] # {}) =>
        /\ process.error = "none"
        /\ Len(process.returned) <= max_schedules

\* ------------------------------------------------- _check_conflict, probed
\* The other sentinel row the scraper stores: arranged meetings.
ARR == [days |-> <<"A", "R", "R">>, begin_time |-> 0, end_time |-> 0]

\* Begin and end times of timed rows, in minutes; 00:00 is a legal TimeField.
ProbeTimes == {0, 540, 590, 690, 740}

\* SectionTime rows: every weekday with every pair of times, and the sentinels.
ProbeMeetings ==
    {[days |-> <<d>>, begin_time |-> b, end_time |-> e] :
        d \in Weekdays, b \in ProbeTimes, e \in ProbeTimes} \cup {ONLINE, ARR}

\* set(time1.days) & set(time2.days)
CommonDays(time1, time2) == Range(time1.days) \cap Range(time2.days)

\* A call _check_conflict(time1, time2) about to be made.
InitConflict ==
    /\ \E time1, time2 \in ProbeMeetings :
          /\ time1.begin_time <= time1.end_time
          /\ time2.begin_time <= time2.end_time
          /\ time1.begin_time = time1.end_time => time1 \in {ONLINE, ARR}
          /\ time2.begin_time = time2.end_time => time2 \in {ONLINE, ARR}
          /\ probe = [op |-> "_check_conflict", time1 |-> time1, time2 |-> time2,
                      called |-> FALSE, common_days |-> {}, value |-> FALSE]
    /\ section_dict = <<>>
    /\ section_time_dict = <<>>
    /\ course_sections = <<>>
    /\ sorted_courses = <<>>
    /\ breaks = <<>>
    /\ preferences \in PreferenceChoices
    /\ max_schedules = 1
    /\ schedule_count = 0
    /\ seen_scores = {}
    /\ heap = <<>>
    /\ stack = <<>>
    /\ thread = "new"
    /\ pc = "unconstructed"
    /\ result = NoResult
    /\ considered = <<>>
    /\ earlier_calls = 0
    /\ process = NoProcess

\* The call: the day intersection it computes and the truth of what it returns.
CallCheckConflict ==
    /\ probe.op = "_check_conflict"
    /\ ~probe.called
    /\ probe' = [probe EXCEPT
                    !.called = TRUE,
                    !.common_days = CommonDays(probe.time1, probe.time2),
                    !.value = _check_conflict(probe.time1, probe.time2)]
    /\ UNCHANGED <<inputs, schedule_count, seen_scores, heap, stack, thread, pc,
                   result, considered, process, earlier_calls>>

NextConflict == CallCheckConflict

SpecConflict == InitConflict /\ [][NextConflict]_vars

\* A call one of whose arguments is a sentinel row has been made.
SentinelProbed ==
    /\ probe.op = "_check_conflict"
    /\ probe.called
    /\ (probe.time1.days \in SentinelDays \/ probe.time2.days \in SentinelDays)

\* C19 as stated: a sentinel meeting conflicts with no meeting, because the
\* day set of a sentinel code intersects no day set.
C19_SentinelDaysIntersectNothing ==
    SentinelProbed => (~probe.value /\ probe.common_days = {})

\* C19: a sentinel meeting conflicts with no meeting, sentinel or timed,
\* whatever the day of the timed meeting.
C19_SentinelNeverConflicts == SentinelProbed => ~probe.value

C19_Witness ==
    /\ SentinelProbed
    /\ probe.time1 = ARR
    /\ probe.time2.days = <<"R">>
    /\ probe.common_days = {"R"}
    /\ ~probe.value

\* ------------------------------------------------ fewer scores than places
\* The distinct scores of the complete schedules that reached the base case.
ConsideredScores == {considered[i].score : i \in 1..Len(considered)}

\* C20: when the feasible complete schedules have at most K distinct scores,
\* the ranked result has exactly one entry for each distinct score.
C20_OneEntryPerDistinctScore ==
    (Ranked /\ Cardinality(ConsideredScores) <= max_schedules) =>
        /\ Len(result.schedules) = Cardinality(ConsideredScores)
        /\ {result.schedules[k].score : k \in 1..Len(result.schedules)}
               = ConsideredScores

C20_Witness ==
    /\ Ranked
    /\ Cardinality(ConsideredScores) = 2
    /\ Cardinality(ConsideredScores) <= max_schedules
    /\ Len(considered) > Cardinality(ConsideredScores)
    /\ Len(result.schedules) = 2

\* --------------------------------------------------- score_schedule, probed
\* Preferences whose time_weight is None.
IllTypedPreferenceChoices ==
    { [preferred_time |-> "morning", time_weight |-> 0,
       preferred_days |-> {"M", "W", "F"}, day_weight |-> 50,
       time_weight_type |-> "NoneType"] }

\* Further preferences: every period, all weekdays preferred (distribution
\* score), weights 0 and 1, negative weights.
OtherPreferenceChoices ==
    { [preferred_time |-> "afternoon", time_weight |-> 60,
       preferred_days |-> Weekdays, day_weight |-> 40],
      [preferred_time |-> "evening", time_weight |-> 0,
       preferred_days |-> {"T", "R"}, day_weight |-> 100],
      [preferred_time |-> "morning", time_weight |-> 100,
       preferred_days |-> {}, day_weight |-> 0],
      [preferred_time |-> "morning", time_weight |-> -50,
       preferred_days |-> {"M", "W", "F"}, day_weight |-> -50] }

ScorePreferenceChoices ==
    PreferenceChoices \cup MalformedPreferenceChoices
        \cup IllTypedPreferenceChoices \cup OtherPreferenceChoices

\* Late meetings, far from the morning midpoint.
T1500 == [days |-> <<"T">>, begin_time |-> 900, end_time |-> 950]
F1800 == [days |-> <<"F">>, begin_time |-> 1080, end_time |-> 1130]

\* The rows of one section, as they arrive in a flat schedule.
ScoreSectionChoices == TimeChoices \cup { <<ARR>>, <<T1500, F1800>> }

\* A call score_schedule(schedule) about to be made on a scorer built from
\* `preferences`; the schedule is the rows of fewer than MaxSections sections.
InitScore ==
    /\ \E n \in 0..(MaxSections - 1) : \E tc \in [1..n -> ScoreSectionChoices] :
          probe = [op |-> "score_schedule", schedule |-> FlattenSeq(tc),
                   called |-> FALSE, raised |-> FALSE, day_counts |-> <<>>,
                   value |-> 0]
    /\ preferences \in ScorePreferenceChoices
    /\ section_dict = <<>>
    /\ section_time_dict = <<>>
    /\ course_sections = <<>>
    /\ sorted_courses = <<>>
    /\ breaks = <<>>
    /\ max_schedules = 1
    /\ schedule_count = 0
    /\ seen_scores = {}
    /\ heap = <<>>
    /\ stack = <<>>
    /\ thread = "new"
    /\ pc = "unconstructed"
    /\ result = NoResult
    /\ considered = <<>>
    /\ earlier_calls = 0
    /\ process = NoProcess

\* The call: whether the try block raised, the Counter that
\* _calculate_day_score built, and the value returned.
CallScoreSchedule ==
    /\ probe.op = "score_schedule"
    /\ ~probe.called
    /\ probe' = [probe EXCEPT
                    !.called = TRUE,
                    !.day_counts = DayCounts(probe.schedule),
                    !.raised = (probe.schedule # <<>>
                                   /\ ScoringRaises(probe.schedule, preferences)),
                    !.value = score_schedule(probe.schedule, preferences)]
    /\ UNCHANGED <<inputs, schedule_count, seen_scores, heap, stack, thread, pc,
                   result, considered, process, earlier_calls>>

NextScore == CallScoreSchedule

SpecScore == InitScore /\ [][NextScore]_vars

TimedRows(schedule) == SelectSeq(schedule, LAMBDA row : row.days \notin SentinelDays)

\* C22: the day counts of a schedule are those of its timed meetings: a
\* sentinel row (ONLINE, ARR) adds to no count and adds no key.
C22_SentinelAddsNoDayCount ==
    (probe.op = "score_schedule" /\ probe.called) =>
        probe.day_counts = DayCounts(TimedRows(probe.schedule))

\* ------------------------------------------------------- the empty catalog
\* C23: a generator built from an empty catalog takes exactly one complete
\* schedule to the base case, the empty one with score 0, and returns it with
\* the count 1.
C23_EmptyCatalogYieldsEmptySchedule ==
    (Ranked /\ section_dict = <<>>) =>
        /\ considered = <<[schedule |-> <<>>, score |-> 0]>>
        /\ result.schedules = <<[score |-> 0, schedule |-> <<>>]>>
        /\ result.count = 1

C23_Witness ==
    /\ Ranked
    /\ section_dict = <<>>
    /\ sorted_courses = <<>>
    /\ Len(considered) = 1
    /\ result.count = 1

\* ------------------------------------------------- an offer to a full buffer
\* C24: a step that offers a score not among the retained ones to a buffer of
\* K entries accepts it iff it is greater than the lowest retained score;
\* it then replaces the entry of the lowest score, whose score leaves
\* seen_scores, and otherwise leaves the buffer unchanged.
C24_FullBufferEvictsLowest ==
    [][(/\ considered' # considered
        /\ Len(heap) = max_schedules
        /\ Last(considered').score \notin seen_scores)
       => LET score == Last(considered').score
              lowest == CHOOSE s \in HeapScores : \A t \in HeapScores : s <= t
          IN IF score > lowest
             THEN /\ {-heap'[i].score : i \in 1..Len(heap')}
                         = (HeapScores \ {lowest}) \cup {score}
                  /\ seen_scores' = (seen_scores \ {lowest}) \cup {score}
             ELSE heap' = heap /\ seen_scores' = seen_scores]_vars

\* --------------------------------------------------------- a scoring error
\* The state after ScheduleGenerator(...) on a catalog of at most
\* max_sections sections, preferences from preference_choices and
\* max_schedules from capacities.
Constructed(max_sections, preference_choices, capacities) ==
    /\ \E n \in 0..max_sections :
         \E sd \in [1..n -> Courses], tc \in [1..n -> TimeChoices] :
            /\ n > 0 => sd[1] = "A"
            /\ section_dict = sd
            /\ course_sections = GroupSections(sd)
            /\ sorted_courses = SortedCourses(sd)
            /\ section_time_dict =
                   [crn \in 1..n |->
                       [i \in 1..Len(tc[crn]) |->
                           [crn |-> crn, days |-> tc[crn][i].days,
                            begin_time |-> tc[crn][i].begin_time,
                            end_time |-> tc[crn][i].end_time]]]
    /\ breaks \in BreakChoices
    /\ preferences \in preference_choices
    /\ max_schedules \in capacities
    /\ schedule_count = 0
    /\ seen_scores = {}
    /\ heap = <<>>
    /\ stack = <<>>
    /\ thread = "new"
    /\ pc = "constructed"
    /\ result = NoResult
    /\ considered = <<>>
    /\ earlier_calls = 0
    /\ process = NoProcess
    /\ probe = NoProbe

\* A generator whose scorer raises on every non-empty schedule.
InitScoringError == Constructed(MaxSections - 1, IllTypedPreferenceChoices, 1..MaxK)

SpecScoringError == InitScoringError /\ [][Next]_vars

\* The scoring of a complete schedule fails with an error.
ScoringFails(schedule) ==
    /\ ScheduleMeetings(schedule) # <<>>
    /\ ScoringRaises(ScheduleMeetings(schedule), preferences)

\* C25: a schedule whose scoring failed is skipped: it is never in the buffer
\* and never in the ranked result.
C25_FailedScheduleSkipped ==
    /\ \A i \in 1..Len(heap) : ~ScoringFails(heap[i].schedule)
    /\ Ranked => \A sch \in ReturnedSchedules : ~ScoringFails(sch)

\* ------------------------------------------- the time contribution, probed
\* Begin times of timed meetings, in minutes after midnight.
ProbeBeginTimes == {1, 300, 360, 480, 600, 840, 900, 1080, 1320}

PeriodChoices == {"morning", "afternoon", "evening"}

\* preferred_mid of _calculate_time_score.
PreferredMid(preferred_time) ==
    LET preferred_range == time_ranges(preferred_time)
    IN preferred_range[1] + (preferred_range[2] - preferred_range[1]) \div 2

\* Two timed meetings about to be scored by one scorer.
InitTimeContribution ==
    /\ \E b1, b2 \in ProbeBeginTimes, period \in PeriodChoices :
          /\ probe = [op |-> "time_contribution", begin1 |-> b1, begin2 |-> b2,
                      called |-> FALSE, value1 |-> 0, value2 |-> 0]
          /\ preferences = [preferred_time |-> period, time_weight |-> 50,
                            preferred_days |-> {"M", "W", "F"}, day_weight |-> 50]
    /\ section_dict = <<>>
    /\ section_time_dict = <<>>
    /\ course_sections = <<>>
    /\ sorted_courses = <<>>
    /\ breaks = <<>>
    /\ max_schedules = 1
    /\ schedule_count = 0
    /\ seen_scores = {}
    /\ heap = <<>>
    /\ stack = <<>>
    /\ thread = "new"
    /\ pc = "unconstructed"
    /\ result = NoResult
    /\ considered = <<>>
    /\ earlier_calls = 0
    /\ process = NoProcess

\* The two iterations of the loop of _calculate_time_score: what each appends
\* to `scores`.
CallTimeContribution ==
    /\ probe.op = "time_contribution"
    /\ ~probe.called
    /\ LET preferred_mid == PreferredMid(preferences.preferred_time)
           row(b) == [days |-> <<"M">>, begin_time |-> b, end_time |-> b + 50]
       IN probe' = [probe EXCEPT
                       !.called = TRUE,
                       !.value1 = TimeContribution(row(probe.begin1), preferred_mid),
                       !.value2 = TimeContribution(row(probe.begin2), preferred_mid)]
    /\ UNCHANGED <<inputs, schedule_count, seen_scores, heap, stack, thread, pc,
                   result, considered, process, earlier_calls>>

NextTimeContribution == CallTimeContribution

SpecTimeContribution == InitTimeContribution /\ [][NextTimeContribution]_vars

\* C26: two timed meetings whose begin times are both at least 240 minutes
\* from the preferred midpoint receive the same time contribution.
C26_SameContributionBeyondMaxDiff ==
    (probe.op = "time_contribution" /\ probe.called) =>
        LET preferred_mid == PreferredMid(preferences.preferred_time)
        IN (Abs(probe.begin1 - preferred_mid) >= MAX_MINUTES_DIFF
               /\ Abs(probe.begin2 - preferred_mid) >= MAX_MINUTES_DIFF)
           => probe.value1 = probe.value2

\* ------------------------------------------------ seen_scores and the heap
\* C27: throughout a search seen_scores is exactly the set of the scores of
\* the entries in the heap.
C27_SeenScoresAreHeapScores == seen_scores = HeapScores

C27_Witness ==
    /\ Len(heap) = max_schedules
    /\ seen_scores = HeapScores
    /\ \E s \in ConsideredScores : s \notin seen_scores
    /\ Cardinality(ConsideredScores) > max_schedules

\* The highest score offered so far.
MaxConsideredScore == CHOOSE s \in ConsideredScores : \A t \in ConsideredScores : t <= s

\* C28: the highest score offered is never evicted, and the first entry of a
\* ranked result that follows at least one offer has that score.
C28_MaxScoreRetainedAndFirst ==
    considered # <<>> =>
        /\ MaxConsideredScore \in HeapScores
        /\ Ranked => result.schedules[1].score = MaxConsideredScore

C28_Witness ==
    /\ Ranked
    /\ Cardinality(ConsideredScores) > max_schedules
    /\ considered[1].score < MaxConsideredScore
    /\ result.schedules[1].score = MaxConsideredScore

\* -------------------------------------------------- a worker that crashes
\* A generator with any max_schedules from 0 on: ScheduleGenerator.__init__
\* stores the value unchecked.
InitAnyCapacity == Constructed(MaxSections, PreferenceChoices, 0..MaxK)

SpecAnyCapacity == InitAnyCapacity /\ [][Next]_vars

\* C29: a ranked result is returned only after the worker has taken every
\* feasible combination to the base case, once each, whichever way the
\* worker thread ended.
C29_RankedMeansWholeTreeVisited ==
    Ranked =>
        /\ ConsideredOnce
        /\ ConsideredSets = {S \in Combinations : FeasibleAcrossSections(S)}

\* ------------------------------------------- generate_schedules, called again
\* Calls of generate_schedules made on one generator.
MaxCalls == 2

\* A further call of generate_schedules on the same generator, made once the
\* earlier call has returned and its worker thread has ended: a new heap list,
\* seen_scores cleared, a new thread.  schedule_count is assigned only in
\* __init__; `result` is still what the earlier call returned.
CallAgain ==
    /\ pc = "returned"
    /\ thread # "running"
    /\ earlier_calls + 1 < MaxCalls
    /\ earlier_calls' = earlier_calls + 1
    /\ heap' = <<>>
    /\ seen_scores' = {}
    /\ stack' = <<[course_index |-> 0, current_schedule |-> <<>>,
                   flat_schedule |-> <<>>, next |-> 1]>>
    /\ thread' = "running"
    /\ pc' = "joining"
    /\ considered' = <<>>
    /\ UNCHANGED <<inputs, process, probe, schedule_count, result>>

NextRepeated ==
    \/ Next
    \/ CallAgain

InitRepeated == Constructed(MaxSections - 1, PreferenceChoices, 1..MaxK)

SpecRepeated == InitRepeated /\ [][NextRepeated]_vars

\* C30: a later call of generate_schedules on the same generator returns what
\* a call on a new generator returns: after a ranked return the same list and
\* count again, after a timeout return the list and count of its own search.
C30_LaterCallReturnsTheSame ==
    [][(pc = "joined" /\ pc' = "returned" /\ earlier_calls > 0
           /\ result'.kind = "ranked")
       => /\ result.kind = "ranked" => result' = result
          /\ result.kind = "timeout" => result' = ReferenceResult]_vars

============================================================================
